---- MODULE Spec2Model ----
(***************************************************************************)
(* Client-side presentation/caching subsystem of the dashboard kiosk:      *)
(*   - useUserActivity      (idle/active detector)                         *)
(*   - useAutoRotation      (rotation scheduler driven by the idle state)  *)
(*   - useConnectionPool    (bounded pool of reusable iframes)             *)
(*   - useDashboardPreloader (bounded cache of preloaded iframes)          *)
(*                                                                         *)
(* React is modelled at the granularity of one handler: a state update,    *)
(* the re-render it causes and the effects of that render are one step.    *)
(* An async function is cut at its awaits; the values it captured before   *)
(* an await (its closure) are kept in the record of the pending call.      *)
(***************************************************************************)
EXTENDS Integers, FiniteSets, Sequences, TLC

\* ------------------------------------------------------------------ bounds
MaxDashboards == 3          \* the dashboard list has 0..MaxDashboards entries
MaxInterval   == 3          \* rotationIntervalSeconds ranges over 1..MaxInterval
MaxTicks      == 7          \* idle ticks counted in one observed countdown run
ActStepMs     == 1000       \* granularity of the detector's clock
MaxClockSteps == 1          \* steps of the wall clock (Date.now())
ClockStepMs   == 700000     \* ms the wall clock advances in one step
MaxInFlight   == 1          \* createPreloadedIframe calls in flight per dashboard
MaxRoutines   == 2          \* preloadNext routines in progress at once
ShortTimeoutMs == 2000      \* a timeoutMs other than the default

\* --------------------------------------------------------------- constants
TimeoutMs == 5000           \* useUserActivity(timeoutMs = 5000)

MaxConnections == 2         \* option maxConnections (default 5)
NumDashboards == MaxConnections + 1   \* one dashboard more than the pool holds
MaxHandles == NumDashboards \* iframes a cache creates in one behaviour
IdleTimeoutMs == 10 * 60 * 1000   \* option idleTimeoutMs

MaxPreloadedDashboards == 3 \* option maxPreloadedDashboards, at its default
NumPreloadable == MaxPreloadedDashboards + 1   \* one more than the cache holds
StaleMs == 5 * 60 * 1000    \* the sweep's staleness bound

NoTimer == -1               \* timeoutRef holds no pending timer
NoRun   == [start |-> -1, ticks |-> -1]

VARIABLES
  \* useUserActivity
  isActive,                 \* useState(true)
  timeoutRef,               \* ms left on the pending deadline timer, or NoTimer
  sinceEvent,               \* history: ms since the last qualifying event / construction
  offFlips,                 \* history: true->false flips of isActive in the current gap
  \* useAutoRotation
  dashboardsLen,            \* dashboards.length
  rotationIntervalSeconds,  \* the configured interval
  currentDashboardIndex,
  isRotating,
  timeRemaining,
  countdownRef,             \* TRUE iff the 1-second interval is set
  run,                      \* history: the countdown run being observed
  rotOp,                    \* history: the handler that made the last step, with
                            \* timeRemaining and currentDashboardIndex before it
  \* DashboardPage
  selectedDashboard,        \* id of the dashboard the page shows (dashboards[k-1] has
                            \* id k), 0: '' (none)
  \* wall clock
  now,                      \* Date.now()
  \* useConnectionPool
  connectionPool,           \* dashboard id -> handle of its PooledConnection, 0: none
  conn,                     \* handle -> the iframe and the connection object made for it
  created,                  \* number of iframes createPooledConnection has created
  poolLeak,                 \* TRUE iff an iframe no connection or call refers to is
                            \* still a child of the hidden container
  pending,                  \* acquireConnection calls suspended on createPooledConnection:
                            \* dashboardId, the iframe awaited, the id of lruConnection
                            \* (0: the create branch)
  isWarmingUp,
  warm,                     \* the warmUpPool call in progress
  warmTimer,                \* TRUE iff setTimeout(warmUpPool, 2000) is pending
  held,                     \* history: handles returned by acquire and not yet released
  poolOp,                   \* history: the pool operation that made the last step (for a
                            \* sweep, res is the number of connections it removed)
  rt,                       \* history: progress of an acquire/release/acquire round trip
  \* useDashboardPreloader
  preloadedDashboards,      \* the Map, as the sequence of its entries in insertion order
  isPreloading,
  prePending,               \* dashboard id -> createPreloadedIframe calls in flight
  preLeak,                  \* TRUE iff an iframe of a failed preload is still a child
                            \* of the hidden container
  preTimedOut,              \* dashboard id -> iframes whose preload timed out and whose
                            \* load/error listeners are still subscribed
  preNextTimer,             \* TRUE iff setTimeout(preloadNext, 1000) is pending
  preNext,                  \* the preloadNext routines in progress
  preOp,                    \* history: the preloader operation that made the last step
                            \* (for a sweep, id is the number of entries it removed)
  \* the owning scope of the two caches (the component that uses the hooks)
  poolScope,                \* useConnectionPool: mounted, poolContainerRef.current set
                            \* (the hidden container is in the document),
                            \* cleanupIntervalRef.current set
  preScope,                 \* useDashboardPreloader: the same three
  \* useUserActivity, its argument and its effect
  timeoutMs,                \* the timeoutMs of the last render
  listening,                \* TRUE iff the effect's listeners are subscribed
  \* DashboardFrame
  frame                     \* the dashboard on display, the position of its
                            \* loadDashboard call and loadMethod

actVars == <<isActive, timeoutRef, sinceEvent, offFlips>>
rotVars == <<dashboardsLen, rotationIntervalSeconds, currentDashboardIndex,
             isRotating, timeRemaining, countdownRef, run, rotOp,
             selectedDashboard>>
poolVars == <<connectionPool, conn, created, poolLeak, pending, isWarmingUp, warm,
              warmTimer, held, poolOp, rt>>
preVars == <<preloadedDashboards, isPreloading, prePending, preLeak, preTimedOut,
             preNextTimer, preNext, preOp>>
scopeVars == <<poolScope, preScope>>
detVars == <<timeoutMs, listening>>
frameVars == <<frame>>
cacheVars == <<now, poolVars, preVars, scopeVars, detVars, frameVars>>
notPool == <<actVars, rotVars, preVars, scopeVars, detVars, frameVars>>
notPre == <<actVars, rotVars, poolVars, scopeVars, detVars, frameVars>>
vars == <<actVars, rotVars, cacheVars>>

Min(a, b) == IF a < b THEN a ELSE b

\* ------------------------------------------------------- useAutoRotation
\* The hook's state as one render sees it.
RotState == [idx |-> currentDashboardIndex, rot |-> isRotating,
             tr |-> timeRemaining, n |-> dashboardsLen,
             iv |-> rotationIntervalSeconds, act |-> isActive]

NextIndex_SkipsOne(prev, n) == (prev + 2) % n

\* nextDashboard's index updater: (prev + 1) % dashboards.length
NextIndex(prev, n) == (prev + 1) % n

NextDashboardOn_OnlyWhenRunning(s) ==
  IF s.n > 0 /\ s.rot
  THEN [s EXCEPT !.idx = NextIndex(s.idx, s.n), !.tr = s.iv] ELSE s

\* nextDashboard(): a no-op on an empty list
NextDashboardOn(s) ==
  IF s.n > 0 THEN [s EXCEPT !.idx = NextIndex(s.idx, s.n), !.tr = s.iv] ELSE s

TickOn_LateByOne(s) ==
  IF s.tr <= 0 THEN [NextDashboardOn(s) EXCEPT !.tr = s.iv]
  ELSE [s EXCEPT !.tr = s.tr - 1]

\* the interval callback's updater of timeRemaining
TickOn(s) ==
  IF s.tr <= 1 THEN [NextDashboardOn(s) EXCEPT !.tr = s.iv]
  ELSE [s EXCEPT !.tr = s.tr - 1]

IntervalEffect_OnStartOnly(prev, s) ==
  prev.rot # s.rot /\ s.rot

\* effect [rotationIntervalSeconds, isRotating]: restart the countdown value
IntervalEffect(prev, s) ==
  (prev.iv # s.iv \/ prev.rot # s.rot) /\ s.rot

ActiveResetEffect_DeafToActivity(prev, s) ==
  (prev.rot # s.rot \/ prev.iv # s.iv) /\ s.act /\ s.rot

\* effect [isUserActive, isRotating, rotationIntervalSeconds]: reset on activity
ActiveResetEffect(prev, s) ==
  (prev.act # s.act \/ prev.rot # s.rot \/ prev.iv # s.iv) /\ s.act /\ s.rot

BoundsEffect_OffByOne(prev, s) ==
  (prev.n # s.n \/ prev.idx # s.idx) /\ s.idx > s.n /\ s.n > 0

\* effect [dashboards.length, currentDashboardIndex]: out-of-bounds reset
BoundsEffect(prev, s) ==
  (prev.n # s.n \/ prev.idx # s.idx) /\ s.idx >= s.n /\ s.n > 0

\* The effects of the render of s that follows the render of prev. Every
\* update an effect makes is idempotent, so the render they cause in turn
\* changes nothing more.
Effects(prev, s) ==
  [s EXCEPT
     !.tr  = IF IntervalEffect(prev, s) \/ ActiveResetEffect(prev, s)
             THEN s.iv ELSE s.tr,
     !.idx = IF BoundsEffect(prev, s) THEN 0 ELSE s.idx]

CountdownCondition_IgnoresActivity(s) == s.rot /\ s.n > 1

CountdownCondition_IgnoresStop(s) == ~s.act /\ s.n > 1

\* countdown effect: the interval is set exactly under this condition; its
\* cleanup and its else branch clear it otherwise
CountdownCondition(s) == s.rot /\ ~s.act /\ s.n > 1

\* history: a countdown run starts whenever the hook is Running and idle
\* with a full timeRemaining
NewRun(s) ==
  IF CountdownCondition(s) /\ s.tr = s.iv
  THEN [start |-> s.idx, ticks |-> 0] ELSE NoRun

\* DashboardPage's two effects on selectedDashboard after the render of s that
\* follows the render of prev: [dashboards, selectedDashboard] selects the first
\* dashboard when nothing is selected, [currentDashboardIndex, dashboards]
\* selects dashboards[currentDashboardIndex] when that exists; the second
\* setSelectedDashboard call wins
SelectedSync(prev, s, sel) ==
  IF (prev.idx # s.idx \/ prev.n # s.n) /\ s.idx < s.n THEN s.idx + 1
  ELSE IF prev.n # s.n /\ s.n > 0 /\ sel = 0 THEN 1
  ELSE sel

\* Commit the hook state s reached by handler op (isActive is the detector's).
Commit(s0, op) ==
  LET s == Effects(RotState, s0) IN
  /\ selectedDashboard' = SelectedSync(RotState, s, selectedDashboard)
  /\ currentDashboardIndex' = s.idx
  /\ isRotating' = s.rot
  /\ timeRemaining' = s.tr
  /\ dashboardsLen' = s.n
  /\ rotationIntervalSeconds' = s.iv
  /\ countdownRef' = CountdownCondition(s)
  /\ rotOp' = [op |-> op, tr |-> timeRemaining, idx |-> currentDashboardIndex]
  /\ run' = IF op = "tick"
            THEN (IF run # NoRun /\ run.ticks < MaxTicks
                  THEN [run EXCEPT !.ticks = run.ticks + 1] ELSE NoRun)
            ELSE NewRun(s)

StartRotation ==
  /\ Commit([RotState EXCEPT !.rot = TRUE, !.tr = rotationIntervalSeconds], "start")
  /\ UNCHANGED <<actVars, cacheVars>>

StopRotation ==
  /\ Commit([RotState EXCEPT !.rot = FALSE], "stop")
  /\ UNCHANGED <<actVars, cacheVars>>

NextDashboard ==
  /\ Commit(NextDashboardOn(RotState), "next")
  /\ UNCHANGED <<actVars, cacheVars>>

\* the setInterval callback
CountdownTick ==
  /\ countdownRef
  /\ Commit(TickOn(RotState), "tick")
  /\ UNCHANGED <<actVars, cacheVars>>

\* the dashboard list changes length (add / delete in the settings page)
SetDashboards ==
  /\ \E n \in 0..MaxDashboards :
       /\ n # dashboardsLen
       /\ Commit([RotState EXCEPT !.n = n], "dashboards")
  /\ UNCHANGED <<actVars, cacheVars>>

\* the viewer picks a dashboard in the selector: onValueChange is
\* setSelectedDashboard, and no effect of the page or of the hook depends on
\* selectedDashboard alone
SelectDashboard ==
  /\ \E k \in 1..dashboardsLen :
       /\ k # selectedDashboard
       /\ selectedDashboard' = k
  /\ rotOp' = [op |-> "select", tr |-> timeRemaining, idx |-> currentDashboardIndex]
  /\ UNCHANGED <<dashboardsLen, rotationIntervalSeconds, currentDashboardIndex,
                 isRotating, timeRemaining, countdownRef, run>>
  /\ UNCHANGED <<actVars, cacheVars>>

\* settings.rotationInterval changes
SetInterval ==
  /\ \E i \in 1..MaxInterval :
       /\ i # rotationIntervalSeconds
       /\ Commit([RotState EXCEPT !.iv = i], "interval")
  /\ UNCHANGED <<actVars, cacheVars>>

\* ------------------------------------------------------- useUserActivity
ResetTimeout_KeepsOldTimer ==
  /\ isActive' = TRUE
  /\ timeoutRef' = IF timeoutRef = NoTimer THEN timeoutMs ELSE timeoutRef
  /\ sinceEvent' = 0
  /\ offFlips' = 0

\* resetTimeout: a qualifying event (or the effect's initial call)
ResetTimeout ==
  /\ isActive' = TRUE
  /\ timeoutRef' = timeoutMs
  /\ sinceEvent' = 0
  /\ offFlips' = 0

ActivityEvent ==
  /\ ResetTimeout
  /\ Commit([RotState EXCEPT !.act = TRUE], "activity")
  /\ UNCHANGED cacheVars

\* the deadline timer's callback
TimeoutFire ==
  /\ timeoutRef = 0
  /\ isActive' = FALSE
  /\ timeoutRef' = NoTimer
  /\ offFlips' = IF isActive THEN offFlips + 1 ELSE offFlips
  /\ UNCHANGED sinceEvent
  /\ Commit([RotState EXCEPT !.act = FALSE], "idle")
  /\ UNCHANGED cacheVars

\* time passes; a due timer runs before more time passes
TimePasses ==
  /\ timeoutRef # 0
  /\ sinceEvent <= TimeoutMs
  /\ LET d == IF timeoutRef = NoTimer THEN ActStepMs ELSE Min(ActStepMs, timeoutRef) IN
       /\ sinceEvent' = sinceEvent + d
       /\ timeoutRef' = IF timeoutRef = NoTimer THEN NoTimer ELSE timeoutRef - d
  /\ UNCHANGED <<isActive, offFlips, rotVars, cacheVars>>

\* the values timeoutMs takes
TimeoutChoices == {ShortTimeoutMs, TimeoutMs}

InitialCall_KeepsPending(v) ==
  /\ isActive' = TRUE
  /\ timeoutRef' = IF timeoutRef = NoTimer THEN v ELSE timeoutRef
  /\ sinceEvent' = 0
  /\ offFlips' = 0

\* the effect run with timeoutMs = v, after the cleanup of the previous run:
\* its initial resetTimeout() call clears the timer timeoutRef refers to and
\* sets one of v ms; its listeners are subscribed
InitialCall(v) ==
  /\ isActive' = TRUE
  /\ timeoutRef' = v
  /\ sinceEvent' = 0
  /\ offFlips' = 0

\* the component renders useUserActivity with another timeoutMs
SetTimeoutMs ==
  /\ listening
  /\ \E v \in TimeoutChoices :
       /\ v # timeoutMs
       /\ timeoutMs' = v
       /\ InitialCall(v)
  /\ Commit([RotState EXCEPT !.act = TRUE], "timeout-config")
  /\ UNCHANGED <<listening, now, poolVars, preVars, scopeVars, frameVars>>

\* the component unmounts: the effect's cleanup removes the listeners and
\* clears the timer timeoutRef refers to
DetectorTeardown ==
  /\ listening
  /\ listening' = FALSE
  /\ timeoutRef' = NoTimer
  /\ UNCHANGED <<isActive, sinceEvent, offFlips, timeoutMs, rotVars>>
  /\ UNCHANGED <<now, poolVars, preVars, scopeVars, frameVars>>

\* ------------------------------------------------------------ wall clock
AdvanceClock ==
  /\ now < MaxClockSteps * ClockStepMs
  /\ now' = now + ClockStepMs

\* ----------------------------------------------------- useConnectionPool
DashboardIds == 1..NumDashboards
Handles == 1..MaxHandles

\* a handle no iframe has been created for
NoConn == [id |-> 0, isActive |-> FALSE, lastUsed |-> 0,
           parent |-> "none", state |-> "none"]

NoWarm == [on |-> FALSE, snap |-> {}, k |-> 0, h |-> 0, delay |-> FALSE]
NoTrip == [phase |-> 0, id |-> 0, h |-> 0, res |-> 0, made |-> FALSE]

\* connectionPool.size and the connections a Map holds
PooledIds(pool) == {d \in DashboardIds : pool[d] # 0}
PoolSize(pool) == Cardinality(PooledIds(pool))
PooledHandles(pool) == {pool[d] : d \in PooledIds(pool)}

\* createPooledConnection up to its await: a new iframe, appended to the
\* hidden container if poolContainerRef.current is set, its load pending
NewIframe(c, h, id) ==
  [c EXCEPT ![h] = [id |-> id, isActive |-> FALSE, lastUsed |-> 0,
                    parent |-> IF poolScope.container THEN "pool" ELSE "none",
                    state |-> "loading"]]

\* handleLoad: the connection object createPooledConnection resolves with
LoadedConnection(c, h, t) ==
  [c EXCEPT ![h].state = "loaded", ![h].isActive = FALSE, ![h].lastUsed = t]

CleanupEffect_SparesActive(oldPool, c) ==
  [h \in Handles |->
     IF h \in PooledHandles(oldPool) /\ ~c[h].isActive
     THEN [c[h] EXCEPT !.parent = "none"] ELSE c[h]]

\* the cleanup of the effect keyed on [connectionPool]: it runs whenever the
\* Map is replaced and removes every iframe of the Map it closed over
CleanupEffect(oldPool, c) ==
  [h \in Handles |->
     IF h \in PooledHandles(oldPool) THEN [c[h] EXCEPT !.parent = "none"] ELSE c[h]]

\* the entries of a Map with their active flags
PoolView(pool, c) == {<<d, c[pool[d]].isActive>> : d \in PooledIds(pool)}

\* the handles something still refers to: a pooled connection, a suspended
\* call, an iframe on loan
Referenced(pool, pend, w, hd) ==
  PooledHandles(pool) \cup {q.h : q \in pend} \cup {w.h} \cup hd

\* iframes nothing refers to any more are forgotten, except for whether one
\* of them is still attached to the hidden container
Tidy(c, pool, pend, w, hd) ==
  [h \in Handles |-> IF h \in Referenced(pool, pend, w, hd) THEN c[h] ELSE NoConn]

Leaks(c, pool, pend, w, hd) ==
  \E h \in Handles \ Referenced(pool, pend, w, hd) : c[h].parent # "none"

\* the handle of the next iframe created
FreshHandle == CHOOSE h \in Handles : conn[h].state = "none" /\
                 \A g \in Handles : conn[g].state = "none" => h <= g

CanCreate == created < MaxHandles

\* setConnectionPool(prev => next) with the render it causes: the cleanup of
\* the previous Map's effect runs, and the warm-up effect, keyed on
\* warmUpPool (which is keyed on connectionPool), re-arms its timer
SetConnectionPool(nextPool, c, pend, w, hd) ==
  /\ connectionPool' = nextPool
  /\ conn' = Tidy(CleanupEffect(connectionPool, c), nextPool, pend, w, hd)
  /\ poolLeak' = (poolLeak \/ Leaks(CleanupEffect(connectionPool, c), nextPool, pend, w, hd))
  /\ pending' = pend
  /\ warm' = w
  /\ held' = hd
  /\ warmTimer' = TRUE

LruCandidates_IgnoresActive(pool, c, t) ==
  {h \in PooledHandles(pool) : c[h].lastUsed < t}

\* the LRU scan of acquireConnection: inactive connections whose lastUsed is
\* below the running minimum, which starts at Date.now()
LruCandidates(pool, c, t) ==
  {h \in PooledHandles(pool) : ~c[h].isActive /\ c[h].lastUsed < t}

LruVictims(pool, c, t) ==
  {h \in LruCandidates(pool, c, t) :
     \A g \in LruCandidates(pool, c, t) : c[h].lastUsed <= c[g].lastUsed}

\* the branch acquireConnection takes for dashboardId = id
AcquireBranch(pool, c, id, t) ==
  IF pool[id] # 0
  THEN IF c[pool[id]].state = "loaded" /\ ~c[pool[id]].isActive
       THEN "reuse" ELSE "unavailable"
  ELSE IF PoolSize(pool) < MaxConnections THEN "create"
  ELSE IF LruCandidates(pool, c, t) # {} THEN "replace"
  ELSE "unavailable"

\* history of the round trip acquire(id); release(id); acquire(id)
TripAcquired(id, h, made) ==
  IF rt.phase = 2 /\ rt.id = id
  THEN [rt EXCEPT !.phase = 3, !.res = h, !.made = made]
  ELSE IF h # 0 /\ ~made
       THEN [NoTrip EXCEPT !.phase = 1, !.id = id, !.h = h]
       ELSE NoTrip

\* acquireConnection(id), up to its return or its first await: what it does
\* to the pool
Acquire(id) ==
  LET branch == AcquireBranch(connectionPool, conn, id, now)
      h0 == connectionPool[id]
      h1 == FreshHandle
  IN
  /\ isWarmingUp' = isWarmingUp
  /\ CASE branch = "reuse" ->
            /\ SetConnectionPool(connectionPool,
                 [conn EXCEPT ![h0].isActive = TRUE, ![h0].lastUsed = now],
                 pending, warm, held \cup {h0})
            /\ created' = created
            /\ poolOp' = [op |-> "acquire", id |-> id, res |-> h0]
            /\ rt' = TripAcquired(id, h0, FALSE)
       [] branch = "create" ->
            /\ CanCreate
            /\ created' = created + 1
            /\ conn' = NewIframe(conn, h1, id)
            /\ pending' = pending \cup {[id |-> id, h |-> h1, lru |-> 0]}
            /\ poolOp' = [op |-> "acquire-create", id |-> id, res |-> 0]
            /\ rt' = TripAcquired(id, 0, TRUE)
            /\ UNCHANGED <<connectionPool, poolLeak, warm, warmTimer, held>>
       [] branch = "replace" ->
            /\ CanCreate
            /\ created' = created + 1
            /\ \E v \in LruVictims(connectionPool, conn, now) :
                 SetConnectionPool(
                   [connectionPool EXCEPT ![conn[v].id] = 0],
                   NewIframe([conn EXCEPT ![v].parent = "none"], h1, id),
                   pending \cup {[id |-> id, h |-> h1, lru |-> conn[v].id]},
                   warm, held)
            /\ poolOp' = [op |-> "acquire-replace", id |-> id, res |-> 0]
            /\ rt' = TripAcquired(id, 0, TRUE)
       [] OTHER ->
            /\ poolOp' = [op |-> "acquire", id |-> id, res |-> 0]
            /\ rt' = TripAcquired(id, 0, FALSE)
            /\ UNCHANGED <<connectionPool, conn, created, poolLeak, pending,
                           warm, warmTimer, held>>

\* acquireConnection(id) called by a caller the model does not follow
AcquireConnection(id) ==
  /\ Acquire(id)
  /\ UNCHANGED <<notPool, now>>

\* the iframe an acquireConnection call waits for loads: the call marks the
\* new connection active, stores it under its id and returns the iframe
Acquired(q) ==
  /\ SetConnectionPool(
       [connectionPool EXCEPT ![q.id] = q.h],
       [LoadedConnection(conn, q.h, now) EXCEPT ![q.h].isActive = TRUE],
       pending \ {q}, warm, held \cup {q.h})
  /\ poolOp' = [op |-> "acquired", id |-> q.id, res |-> q.h]
  /\ rt' = [NoTrip EXCEPT !.phase = 1, !.id = q.id, !.h = q.h]
  /\ UNCHANGED <<created, isWarmingUp>>

AcquireLoaded(q) ==
  /\ Acquired(q)
  /\ UNCHANGED <<notPool, now>>

\* the iframe fails to load (handleError) or the 20 s timeout fires: the call
\* returns null; neither path removes the iframe from the hidden container
AcquireRejected(q) ==
  /\ conn' = Tidy(conn, connectionPool, pending \ {q}, warm, held)
  /\ poolLeak' = (poolLeak \/ Leaks(conn, connectionPool, pending \ {q}, warm, held))
  /\ pending' = pending \ {q}
  /\ \E timedOut \in BOOLEAN :
       poolOp' = [op |-> IF timedOut THEN "acquire-timeout" ELSE "acquire-failed",
                  id |-> q.id, res |-> 0]
  /\ rt' = NoTrip
  /\ UNCHANGED <<connectionPool, created, isWarmingUp, warm, warmTimer, held>>

AcquireFailed(q) ==
  /\ AcquireRejected(q)
  /\ UNCHANGED <<notPool, now>>

ReleaseConnection_KeepsActive(id) ==
  /\ SetConnectionPool(connectionPool, conn, pending, warm,
                       {g \in held : conn[g].id # id})
  /\ poolOp' = [op |-> "release", id |-> id, res |-> connectionPool[id]]
  /\ rt' = IF rt.phase = 1 /\ rt.id = id
           THEN [rt EXCEPT !.phase = 2] ELSE NoTrip
  /\ UNCHANGED <<created, isWarmingUp>>
  /\ UNCHANGED <<notPool, now>>

\* releaseConnection(id): what it does to the pool
Release(id) ==
  LET h == connectionPool[id]
      hd == {g \in held : conn[g].id # id}
  IN
  /\ SetConnectionPool(connectionPool,
       IF h # 0 THEN [conn EXCEPT ![h].isActive = FALSE, ![h].lastUsed = now]
       ELSE conn,
       pending, warm, hd)
  /\ poolOp' = [op |-> "release", id |-> id, res |-> h]
  /\ rt' = IF rt.phase = 1 /\ rt.id = id
           THEN [rt EXCEPT !.phase = 2] ELSE NoTrip
  /\ UNCHANGED <<created, isWarmingUp>>

\* releaseConnection(id) called by a caller the model does not follow
ReleaseConnection(id) ==
  /\ Release(id)
  /\ UNCHANGED <<notPool, now>>

IdleConnections_SweepsActive(pool, c, t) ==
  {h \in PooledHandles(pool) : t - c[h].lastUsed > IdleTimeoutMs}

\* the connections one run of the 30 s sweep removes
IdleConnections(pool, c, t) ==
  {h \in PooledHandles(pool) :
     ~c[h].isActive /\ t - c[h].lastUsed > IdleTimeoutMs}

\* the periodic sweep
SweepIdle ==
  LET gone == IdleConnections(connectionPool, conn, now) IN
  /\ SetConnectionPool(
       [d \in DashboardIds |->
          IF connectionPool[d] \in gone THEN 0 ELSE connectionPool[d]],
       [h \in Handles |->
          IF h \in gone THEN [conn[h] EXCEPT !.parent = "none"] ELSE conn[h]],
       pending, warm, held)
  /\ poolOp' = [op |-> "sweep", id |-> 0, res |-> Cardinality(gone)]
  /\ rt' = NoTrip
  /\ UNCHANGED <<created, isWarmingUp>>
  /\ UNCHANGED <<notPool, now>>

\* dashboards.slice(0, Math.min(maxConnections, dashboards.length))
DashboardsToWarmUp == 1..Min(MaxConnections, NumDashboards)

\* the dashboards the loop of warmUpPool still creates from position k on:
\* those its captured connectionPool does not hold
WarmMissing(snap, k) == {d \in DashboardsToWarmUp : d >= k /\ d \notin snap}

\* warmUpPool's loop from position k to its next await, or to its end; w is
\* the call as suspended so far
WarmLoop(snap, k, w) ==
  LET miss == WarmMissing(snap, k)
      d == CHOOSE x \in miss : \A y \in miss : x <= y
      c == Tidy(conn, connectionPool, pending, w, held)
      h1 == CHOOSE h \in Handles : c[h].state = "none" /\
                 \A g \in Handles : c[g].state = "none" => h <= g
  IN
  /\ poolLeak' = (poolLeak \/ Leaks(conn, connectionPool, pending, w, held))
  /\ IF miss = {}
     THEN /\ warm' = NoWarm
          /\ isWarmingUp' = FALSE
          /\ conn' = c
          /\ created' = created
     ELSE /\ CanCreate
          /\ warm' = [on |-> TRUE, snap |-> snap, k |-> d, h |-> h1, delay |-> FALSE]
          /\ isWarmingUp' = TRUE
          /\ conn' = NewIframe(c, h1, d)
          /\ created' = created + 1

WarmUpPool_Reentrant ==
  /\ warmTimer
  /\ poolOp' = [op |-> "warm", id |-> 0, res |-> 0]
  /\ rt' = NoTrip
  /\ UNCHANGED <<connectionPool, pending, held>>
  /\ UNCHANGED <<notPool, now>>
  /\ WarmLoop(PooledIds(connectionPool), 1, NoWarm)
  /\ warmTimer' = isWarmingUp'

\* setTimeout(warmUpPool, 2000) fires
WarmUpPool ==
  /\ warmTimer
  /\ poolOp' = [op |-> "warm", id |-> 0, res |-> 0]
  /\ rt' = NoTrip
  /\ UNCHANGED <<connectionPool, pending, held>>
  /\ UNCHANGED <<notPool, now>>
  /\ IF isWarmingUp
     THEN /\ warmTimer' = FALSE
          /\ UNCHANGED <<conn, created, poolLeak, isWarmingUp, warm>>
     ELSE /\ WarmLoop(PooledIds(connectionPool), 1, NoWarm)
          \* isWarmingUp changed: the effect keyed on warmUpPool re-arms
          /\ warmTimer' = isWarmingUp'

\* the iframe warm-up waits for loads: the connection is stored inactive
WarmLoaded ==
  /\ warm.on /\ warm.h # 0
  /\ SetConnectionPool(
       [connectionPool EXCEPT ![warm.k] = warm.h],
       LoadedConnection(conn, warm.h, now),
       pending, [warm EXCEPT !.h = 0, !.delay = TRUE], held)
  /\ poolOp' = [op |-> "warm-loaded", id |-> warm.k, res |-> 0]
  /\ rt' = NoTrip
  /\ UNCHANGED <<created, isWarmingUp>>
  /\ UNCHANGED <<notPool, now>>

\* the warm-up iframe fails or times out: logged, the loop goes on
WarmFailed ==
  /\ warm.on /\ warm.h # 0
  /\ WarmLoop(warm.snap, warm.k + 1, NoWarm)
  /\ warmTimer' = (warmTimer \/ ~isWarmingUp')
  /\ \E timedOut \in BOOLEAN :
       poolOp' = [op |-> IF timedOut THEN "warm-timeout" ELSE "warm-failed",
                  id |-> warm.k, res |-> 0]
  /\ rt' = NoTrip
  /\ UNCHANGED <<connectionPool, pending, held>>
  /\ UNCHANGED <<notPool, now>>

\* the warmupDelayMs pause after a stored connection ends
WarmDelayDone ==
  /\ warm.on /\ warm.delay
  /\ WarmLoop(warm.snap, warm.k + 1, NoWarm)
  /\ warmTimer' = (warmTimer \/ ~isWarmingUp')
  /\ poolOp' = [op |-> "warm-delay", id |-> warm.k, res |-> 0]
  /\ rt' = NoTrip
  /\ UNCHANGED <<connectionPool, pending, held>>
  /\ UNCHANGED <<notPool, now>>

\* ------------------------------------------------- useDashboardPreloader
PreloadIds == 1..NumPreloadable
Routines == 1..MaxRoutines

\* no preloadNext routine in this slot
NoRoutine == [on |-> FALSE, idx |-> 0, n |-> 0, snap |-> {}, k |-> 0,
              wait |-> "none"]

\* preloadedDashboards.has(id)
HasPreloaded(m, id) == \E i \in 1..Len(m) : m[i].id = id

\* the keys of the preload cache
PreloadedIds(m) == {m[i].id : i \in 1..Len(m)}

\* updated.delete(id)
MapDelete(m, id) == SelectSeq(m, LAMBDA e : e.id # id)

\* updated.set(id, e): a key the Map holds keeps its position
MapSet(m, e) ==
  IF HasPreloaded(m, e.id)
  THEN [i \in 1..Len(m) |-> IF m[i].id = e.id THEN e ELSE m[i]]
  ELSE Append(m, e)

\* the scan of preloadDashboard's updater from entry i on, oldestId and
\* oldestTime being the running minimum; 0 is the empty oldestId
RECURSIVE OldestScan(_, _, _, _)
OldestScan(m, i, oldestId, oldestTime) ==
  IF i > Len(m) THEN oldestId
  ELSE IF m[i].lastUsed < oldestTime
       THEN OldestScan(m, i + 1, m[i].id, m[i].lastUsed)
       ELSE OldestScan(m, i + 1, oldestId, oldestTime)

\* "Remove oldest if we're at the limit": oldestTime starts at Date.now()
EvictOldest(m, t) ==
  IF Len(m) >= MaxPreloadedDashboards
  THEN LET oldestId == OldestScan(m, 1, 0, t)
       IN IF oldestId # 0 THEN MapDelete(m, oldestId) ELSE m
  ELSE m

\* the cleanup of the effect keyed on [preloadedDashboards]: when the state
\* changes, every iframe of the Map being replaced leaves its parent
PreCleanupEffect(m) == [i \in 1..Len(m) |-> [m[i] EXCEPT !.attached = FALSE]]

\* lastUsed = new Date() on the entry of id, in place
TouchPreloaded(m, id, t) ==
  [i \in 1..Len(m) |-> IF m[i].id = id THEN [m[i] EXCEPT !.lastUsed = t] ELSE m[i]]

\* the updater preloadDashboard runs once its iframe has loaded
InsertPreloaded(m, id, t) ==
  MapSet(PreCleanupEffect(EvictOldest(m, t)),
         [id |-> id, lastUsed |-> t, attached |-> TRUE])

\* setPreloadedDashboards(next) with the render it causes: the preload-next
\* effect, keyed on preloadedDashboards, clears its timer and sets a new one
SetPreloadedDashboards(next) ==
  /\ preloadedDashboards' = next
  /\ preNextTimer' = (dashboardsLen > 1)

\* preloadDashboard(dashboard) up to its await
PreloadDashboard(id) ==
  /\ IF HasPreloaded(preloadedDashboards, id)
     THEN /\ SetPreloadedDashboards(
               PreCleanupEffect(TouchPreloaded(preloadedDashboards, id, now)))
          /\ preOp' = [op |-> "preload-refresh", id |-> id]
          /\ UNCHANGED <<isPreloading, prePending>>
     ELSE /\ prePending[id] < MaxInFlight
          /\ isPreloading' = TRUE
          /\ prePending' = [prePending EXCEPT ![id] = @ + 1]
          /\ preOp' = [op |-> "preload", id |-> id]
          /\ UNCHANGED <<preloadedDashboards, preNextTimer>>
  /\ UNCHANGED <<preLeak, preTimedOut, preNext, now, notPre>>

\* createPreloadedIframe resolves: the updater of preloadDashboard, then finally
PreloadLoaded(id) ==
  /\ prePending[id] > 0
  /\ prePending' = [prePending EXCEPT ![id] = @ - 1]
  /\ SetPreloadedDashboards(InsertPreloaded(preloadedDashboards, id, now))
  /\ isPreloading' = FALSE
  /\ preOp' = [op |-> "preload-loaded", id |-> id]
  /\ UNCHANGED <<preLeak, preTimedOut, preNext, now, notPre>>

\* handleError: listeners removed, the promise rejects, preloadDashboard logs;
\* the iframe stays in the hidden container
PreloadFailed(id) ==
  /\ prePending[id] > 0
  /\ prePending' = [prePending EXCEPT ![id] = @ - 1]
  /\ isPreloading' = FALSE
  /\ preLeak' = TRUE
  /\ preOp' = [op |-> "preload-failed", id |-> id]
  /\ UNCHANGED <<preloadedDashboards, preNextTimer, preTimedOut, preNext, now, notPre>>

\* the preloadTimeoutMs timer fires: the promise rejects, nothing else; the
\* iframe stays in the hidden container with its listeners
PreloadTimedOut(id) ==
  /\ prePending[id] > 0
  /\ preTimedOut[id] < MaxInFlight
  /\ prePending' = [prePending EXCEPT ![id] = @ - 1]
  /\ preTimedOut' = [preTimedOut EXCEPT ![id] = @ + 1]
  /\ isPreloading' = FALSE
  /\ preLeak' = TRUE
  /\ preOp' = [op |-> "preload-timeout", id |-> id]
  /\ UNCHANGED <<preloadedDashboards, preNextTimer, preNext, now, notPre>>

PreloadLateEvent_Resolves(id) ==
  /\ preTimedOut[id] > 0
  /\ preTimedOut' = [preTimedOut EXCEPT ![id] = @ - 1]
  /\ SetPreloadedDashboards(InsertPreloaded(preloadedDashboards, id, now))
  /\ preOp' = [op |-> "late-event", id |-> id]
  /\ UNCHANGED <<isPreloading, prePending, preLeak, preNext, now, notPre>>

\* a load or error event arrives on an iframe whose preload timed out: the
\* handler removes the listeners; resolve / reject on the promise, which is
\* settled, does nothing
PreloadLateEvent(id) ==
  /\ preTimedOut[id] > 0
  /\ preTimedOut' = [preTimedOut EXCEPT ![id] = @ - 1]
  /\ preOp' = [op |-> "late-event", id |-> id]
  /\ UNCHANGED <<preloadedDashboards, preNextTimer, isPreloading, prePending,
                 preLeak, preNext, now, notPre>>

\* getPreloadedIframe(dashboardId): refreshes lastUsed in place
GetPreloadedIframe(id) ==
  /\ HasPreloaded(preloadedDashboards, id)
  /\ preloadedDashboards' = TouchPreloaded(preloadedDashboards, id, now)
  /\ preOp' = [op |-> "get", id |-> id]
  /\ UNCHANGED <<preNextTimer, isPreloading, prePending, preLeak, preTimedOut,
                 preNext, now, notPre>>

\* removePreloadedDashboard(dashboardId)
RemovePreloadedDashboard(id) ==
  /\ SetPreloadedDashboards(PreCleanupEffect(MapDelete(preloadedDashboards, id)))
  /\ preOp' = [op |-> "remove", id |-> id]
  /\ UNCHANGED <<isPreloading, prePending, preLeak, preTimedOut, preNext, now, notPre>>

SweepStale_OnlyWhenFull(m, t) ==
  IF Len(m) >= MaxPreloadedDashboards
  THEN SelectSeq(m, LAMBDA e : ~(t - e.lastUsed > StaleMs))
  ELSE m

\* the updater of the periodic cleanup: entries not used in the last 5
\* minutes are deleted
SweepStale(m, t) == SelectSeq(m, LAMBDA e : ~(t - e.lastUsed > StaleMs))

\* one run of the periodic cleanup
PreSweep ==
  /\ SetPreloadedDashboards(PreCleanupEffect(SweepStale(preloadedDashboards, now)))
  /\ preOp' = [op |-> "sweep",
               id |-> Len(preloadedDashboards) - Len(SweepStale(preloadedDashboards, now))]
  /\ UNCHANGED <<isPreloading, prePending, preLeak, preTimedOut, preNext, now, notPre>>

\* time passes between two calls of the preloader
PreClock ==
  /\ AdvanceClock
  /\ UNCHANGED <<preVars, notPre>>

\* dashboards[(currentDashboardIndex + k) % dashboards.length].id, for the
\* index and list the routine r closed over
PreloadTarget(r, k) == ((r.idx + k) % r.n) + 1

\* the first position from k0 on whose dashboard the routine's captured Map
\* does not hold; 0 when the loop ends
NextPosition(r, k0) ==
  LET todo == {k \in k0..2 : PreloadTarget(r, k) \notin r.snap} IN
  IF todo = {} THEN 0 ELSE CHOOSE k \in todo : \A j \in todo : k <= j

\* preloadNext's loop from position k0 to its next await, or to its end
RoutineFrom(r, k0) ==
  IF NextPosition(r, k0) = 0 THEN NoRoutine
  ELSE [r EXCEPT !.k = NextPosition(r, k0), !.wait = "load"]

\* a routine in slot s goes on from position k0; preloadDashboard, called
\* with the Map the routine closed over, sets isPreloading before it awaits
RoutineContinues(s, r, k0) ==
  /\ preNext' = [preNext EXCEPT ![s] = RoutineFrom(r, k0)]
  /\ isPreloading' = (isPreloading \/ RoutineFrom(r, k0).on)

\* the parent renders the preloader with the next index (nextDashboard of
\* useAutoRotation): the preload-next effect clears its timer and sets a new one
IndexChange ==
  /\ dashboardsLen > 1
  /\ Commit(NextDashboardOn(RotState), "next")
  /\ preNextTimer' = TRUE
  /\ preOp' = [op |-> "index", id |-> 0]
  /\ UNCHANGED <<preloadedDashboards, isPreloading, prePending, preLeak,
                 preTimedOut, preNext>>
  /\ UNCHANGED <<actVars, now, poolVars, scopeVars, detVars, frameVars>>

\* setTimeout(preloadNext, 1000) fires: a routine starts with the index, the
\* list and the Map of the render that set the timer
PreloadNext ==
  /\ preNextTimer
  /\ dashboardsLen > 1
  /\ \E s \in Routines :
       /\ ~preNext[s].on
       /\ \A g \in Routines : ~preNext[g].on => s <= g
       /\ RoutineContinues(s, [on |-> TRUE, idx |-> currentDashboardIndex,
                               n |-> dashboardsLen,
                               snap |-> PreloadedIds(preloadedDashboards),
                               k |-> 0, wait |-> "none"], 1)
  /\ preNextTimer' = FALSE
  /\ preOp' = [op |-> "next", id |-> 0]
  /\ UNCHANGED <<preloadedDashboards, prePending, preLeak, preTimedOut, now, notPre>>

\* the iframe a routine waits for loads: preloadDashboard's updater and
\* finally run, the routine starts its 100 ms pause
NextLoaded(s) ==
  /\ preNext[s].wait = "load"
  /\ SetPreloadedDashboards(
       InsertPreloaded(preloadedDashboards, PreloadTarget(preNext[s], preNext[s].k), now))
  /\ isPreloading' = FALSE
  /\ preNext' = [preNext EXCEPT ![s].wait = "delay"]
  /\ preOp' = [op |-> "next-loaded", id |-> 0]
  /\ UNCHANGED <<prePending, preLeak, preTimedOut, now, notPre>>

\* the iframe a routine waits for fails (error event) or times out:
\* preloadDashboard logs and returns, the routine starts its 100 ms pause
NextFailed(s) ==
  /\ preNext[s].wait = "load"
  /\ isPreloading' = FALSE
  /\ preLeak' = TRUE
  /\ preNext' = [preNext EXCEPT ![s].wait = "delay"]
  /\ \E timedOut \in BOOLEAN :
       LET id == PreloadTarget(preNext[s], preNext[s].k) IN
       IF timedOut
       THEN /\ preTimedOut[id] < MaxInFlight
            /\ preTimedOut' = [preTimedOut EXCEPT ![id] = @ + 1]
            /\ preOp' = [op |-> "next-timeout", id |-> 0]
       ELSE /\ preTimedOut' = preTimedOut
            /\ preOp' = [op |-> "next-failed", id |-> 0]
  /\ UNCHANGED <<preloadedDashboards, preNextTimer, prePending, now, notPre>>

\* the 100 ms pause of a routine ends: the loop goes on
NextDelayDone(s) ==
  /\ preNext[s].wait = "delay"
  /\ RoutineContinues(s, preNext[s], preNext[s].k + 1)
  /\ preOp' = [op |-> "next-delay", id |-> 0]
  /\ UNCHANGED <<preloadedDashboards, preNextTimer, prePending, preLeak,
                 preTimedOut, now, notPre>>

\* -------------------------------------------------------- DashboardFrame
\* no dashboard rendered yet; useState('fresh')
NoFrame == [id |-> 0, stage |-> "idle", method |-> "fresh"]

PreloadedLookup_Skipped(m, id) == FALSE

\* getPreloadedIframe(dashboard.id) returns an iframe
PreloadedLookup(m, id) == HasPreloaded(m, id)

\* setLoadMethod(method) and the render it causes: the release effect, keyed
\* on [dashboard.id, loadMethod], has its cleanup run when loadMethod changed,
\* and the cleanup calls releaseConnection if the loadMethod it closed over
\* is 'pooled'
AfterLoadMethod(old, method) ==
  IF old = "pooled" /\ method # "pooled" THEN "release" ELSE "idle"

\* between two turns of the event loop: no loadDashboard call is running
FrameAtRest == frame.stage \in {"idle", "acquiring"}

\* the frame is rendered with another dashboard: the cleanup of the release
\* effect runs with the dashboard and the loadMethod of the previous render,
\* then the load effect calls loadDashboard
FrameSwitch(id) ==
  /\ frame.stage = "idle"
  /\ id # frame.id
  /\ frame' = [frame EXCEPT !.id = id, !.stage = "load"]
  /\ IF frame.method = "pooled" /\ frame.id # 0
     THEN Release(frame.id)
     ELSE UNCHANGED poolVars
  /\ UNCHANGED <<actVars, rotVars, preVars, scopeVars, detVars, now>>

\* handleRetry: retryCount changes, the load effect calls loadDashboard again
FrameRetry ==
  /\ frame.stage = "idle"
  /\ frame.id # 0
  /\ frame' = [frame EXCEPT !.stage = "load"]
  /\ UNCHANGED <<actVars, rotVars, poolVars, preVars, scopeVars, detVars, now>>

\* loadDashboard up to its return or to the await of a connection: the
\* preloaded iframe is cloned into the display and its entry removed, or
\* acquireConnection is called and, if it returns at once, its iframe is
\* moved into the display or a fresh iframe is created
FrameLoad ==
  LET id == frame.id
      branch == AcquireBranch(connectionPool, conn, id, now)
  IN
  /\ frame.stage = "load"
  /\ IF PreloadedLookup(preloadedDashboards, id)
     THEN /\ frame' = [frame EXCEPT !.method = "preloaded",
                          !.stage = AfterLoadMethod(frame.method, "preloaded")]
          /\ SetPreloadedDashboards(PreCleanupEffect(
               MapDelete(TouchPreloaded(preloadedDashboards, id, now), id)))
          /\ preOp' = [op |-> "remove", id |-> id]
          /\ UNCHANGED <<isPreloading, prePending, preLeak, preTimedOut, preNext>>
          /\ UNCHANGED poolVars
     ELSE /\ Acquire(id)
          /\ frame' =
               CASE branch = "reuse" ->
                      [frame EXCEPT !.method = "pooled", !.stage = "idle"]
                 [] branch \in {"create", "replace"} ->
                      [frame EXCEPT !.stage = "acquiring"]
                 [] OTHER ->
                      [frame EXCEPT !.method = "fresh",
                         !.stage = AfterLoadMethod(frame.method, "fresh")]
          /\ UNCHANGED preVars
  /\ UNCHANGED <<actVars, rotVars, scopeVars, detVars, now>>

\* the connection loadDashboard waits for is created: usePooledIframe
FrameAcquired(q) ==
  /\ frame.stage = "acquiring"
  /\ q.id = frame.id
  /\ Acquired(q)
  /\ frame' = [frame EXCEPT !.method = "pooled", !.stage = "idle"]
  /\ UNCHANGED <<actVars, rotVars, preVars, scopeVars, detVars, now>>

\* acquireConnection returns null after a failed creation: createFreshIframe
FrameAcquireFailed(q) ==
  /\ frame.stage = "acquiring"
  /\ q.id = frame.id
  /\ AcquireRejected(q)
  /\ frame' = [frame EXCEPT !.method = "fresh",
                  !.stage = AfterLoadMethod(frame.method, "fresh")]
  /\ UNCHANGED <<actVars, rotVars, preVars, scopeVars, detVars, now>>

\* the cleanup of the release effect after loadMethod left 'pooled'
FrameRelease ==
  /\ frame.stage = "release"
  /\ Release(frame.id)
  /\ frame' = [frame EXCEPT !.stage = "idle"]
  /\ UNCHANGED <<actVars, rotVars, preVars, scopeVars, detVars, now>>

\* the frame is rendered with another dashboard while its loadDashboard call
\* waits for a connection: the cleanup of the release effect runs as in
\* FrameSwitch, the load effect calls loadDashboard for the new dashboard, and
\* the call that waits goes on waiting with the dashboard it closed over
FrameSwitchEarly(id) ==
  /\ frame.stage = "acquiring"
  /\ id # frame.id
  /\ frame' = [frame EXCEPT !.id = id, !.stage = "load"]
  /\ IF frame.method = "pooled" /\ frame.id # 0
     THEN Release(frame.id)
     ELSE UNCHANGED poolVars
  /\ UNCHANGED <<actVars, rotVars, preVars, scopeVars, detVars, now>>

\* q is a call of an earlier render: the current loadDashboard call does not
\* wait for it
LateCall(q) ==
  /\ FrameAtRest
  /\ ~(frame.stage = "acquiring" /\ q.id = frame.id)

\* the connection a loadDashboard call of an earlier render waits for is
\* created: acquireConnection marks it active and returns its iframe, and the
\* call goes on to usePooledIframe, which sets loadMethod to 'pooled'; the
\* release effect's cleanup runs with the loadMethod of the previous render
FrameAcquiredLate(q) ==
  /\ LateCall(q)
  /\ Acquired(q)
  /\ frame' = [frame EXCEPT !.method = "pooled"]
  /\ UNCHANGED <<actVars, rotVars, preVars, scopeVars, detVars, now>>

\* the creation a loadDashboard call of an earlier render waits for fails: the
\* call goes on to createFreshIframe, which sets loadMethod to 'fresh' (the
\* step is followed while that leaves no release to run before the current
\* call returns)
FrameAcquireFailedLate(q) ==
  /\ LateCall(q)
  /\ ~(frame.stage = "acquiring" /\ frame.method = "pooled")
  /\ AcquireRejected(q)
  /\ frame' = [frame EXCEPT !.method = "fresh",
                  !.stage = IF frame.stage = "acquiring" THEN "acquiring"
                            ELSE AfterLoadMethod(frame.method, "fresh")]
  /\ UNCHANGED <<actVars, rotVars, preVars, scopeVars, detVars, now>>

\* --------------------------------------------------------------- teardown
\* the cleanups of the container effect and of the interval effect: the hidden
\* container leaves the document and its ref is cleared, the interval is cleared
TeardownScope(s) ==
  [s EXCEPT !.mounted = FALSE, !.container = FALSE, !.interval = FALSE]

\* the component that uses the two hooks unmounts: the cleanup of every effect
\* runs, for the Maps of the last render
Teardown ==
  /\ poolScope.mounted /\ preScope.mounted
  /\ poolScope' = TeardownScope(poolScope)
  /\ preScope' = TeardownScope(preScope)
  /\ conn' = CleanupEffect(connectionPool, conn)
  /\ warmTimer' = FALSE
  /\ preloadedDashboards' = PreCleanupEffect(preloadedDashboards)
  /\ preNextTimer' = FALSE
  /\ poolOp' = [op |-> "teardown", id |-> 0, res |-> 0]
  /\ preOp' = [op |-> "teardown", id |-> 0]
  /\ rt' = NoTrip
  /\ UNCHANGED <<connectionPool, created, poolLeak, pending, isWarmingUp, warm, held>>
  /\ UNCHANGED <<isPreloading, prePending, preLeak, preTimedOut, preNext>>
  /\ UNCHANGED <<actVars, rotVars, now, detVars, frameVars>>

\* a warmUpPool call that outlives the hook: the creation it waits for times
\* out, or its pause ends, and the loop goes on; state updates of an unmounted
\* component are dropped, no effect runs
WarmAfterTeardown ==
  /\ ~poolScope.mounted
  /\ warm.on
  /\ WarmLoop(warm.snap, warm.k + 1, NoWarm)
  /\ poolOp' = [op |-> "warm-unmounted", id |-> warm.k, res |-> 0]
  /\ rt' = NoTrip
  /\ UNCHANGED <<connectionPool, pending, held, warmTimer>>
  /\ UNCHANGED <<notPool, now>>

\* the iframes of the pool that are in the document
PoolInDocument ==
  {h \in Handles : conn[h].parent = "pool" /\ poolScope.container}

\* ------------------------------------------------------------------ specs
InitAct ==
  /\ timeoutMs = TimeoutMs
  /\ listening = TRUE
  /\ isActive = TRUE
  /\ timeoutRef = timeoutMs
  /\ sinceEvent = 0
  /\ offFlips = 0

InitRot ==
  /\ dashboardsLen \in 0..MaxDashboards
  /\ rotationIntervalSeconds \in 1..MaxInterval
  /\ currentDashboardIndex = 0
  /\ isRotating = FALSE
  /\ timeRemaining = rotationIntervalSeconds
  /\ countdownRef = FALSE
  /\ run = NoRun
  /\ rotOp = [op |-> "init", tr |-> rotationIntervalSeconds, idx |-> 0]
  /\ selectedDashboard = IF dashboardsLen > 0 THEN 1 ELSE 0

InitPool ==
  /\ now = 0
  /\ connectionPool = [d \in DashboardIds |-> 0]
  /\ conn = [h \in Handles |-> NoConn]
  /\ created = 0
  /\ poolLeak = FALSE
  /\ pending = {}
  /\ isWarmingUp = FALSE
  /\ warm = NoWarm
  /\ warmTimer = TRUE
  /\ held = {}
  /\ poolOp = [op |-> "init", id |-> 0, res |-> 0]
  /\ rt = NoTrip

InitPre ==
  /\ preloadedDashboards = <<>>
  /\ isPreloading = FALSE
  /\ prePending = [id \in PreloadIds |-> 0]
  /\ preLeak = FALSE
  /\ preTimedOut = [id \in PreloadIds |-> 0]
  /\ preNextTimer = (dashboardsLen > 1)
  /\ preNext = [s \in Routines |-> NoRoutine]
  /\ preOp = [op |-> "init", id |-> 0]

NextPre ==
  \/ PreClock
  \/ \E id \in PreloadIds : PreloadDashboard(id)
  \/ \E id \in PreloadIds : PreloadLoaded(id)
  \/ \E id \in PreloadIds : PreloadFailed(id)
  \/ \E id \in PreloadIds : PreloadTimedOut(id)
  \/ \E id \in PreloadIds : PreloadLateEvent(id)
  \/ \E id \in PreloadIds : GetPreloadedIframe(id)
  \/ \E id \in PreloadIds : RemovePreloadedDashboard(id)
  \/ PreSweep

\* time passes between two calls of the pool
PoolClock ==
  /\ AdvanceClock
  /\ rt' = NoTrip
  /\ UNCHANGED <<connectionPool, conn, created, poolLeak, pending, isWarmingUp,
                 warm, warmTimer, held, poolOp>>
  /\ UNCHANGED notPool

NextPool ==
  \/ PoolClock
  \/ \E id \in DashboardIds : AcquireConnection(id)
  \/ \E q \in pending : AcquireLoaded(q)
  \/ \E q \in pending : AcquireFailed(q)
  \/ \E id \in DashboardIds : ReleaseConnection(id)
  \/ SweepIdle

NextWarm ==
  \/ NextPool
  \/ WarmUpPool
  \/ WarmLoaded
  \/ WarmFailed
  \/ WarmDelayDone

\* the preloader as the index changes drive it: the preload-next effect and
\* the routines it starts
NextNext ==
  \/ IndexChange
  \/ PreloadNext
  \/ \E s \in Routines : NextLoaded(s)
  \/ \E s \in Routines : NextFailed(s)
  \/ \E s \in Routines : NextDelayDone(s)
  \/ \E id \in PreloadIds : PreloadLateEvent(id)

\* both hooks mounted: their container and interval effects have run
MountedScope == [mounted |-> TRUE, container |-> TRUE, interval |-> TRUE]

InitScope ==
  /\ poolScope = MountedScope
  /\ preScope = MountedScope

InitFrame == frame = NoFrame

Init == InitAct /\ InitRot /\ InitPool /\ InitPre /\ InitScope /\ InitFrame

\* the caches with the page that hosts them in one fixed configuration
InitCaches ==
  /\ Init
  /\ dashboardsLen = MaxDashboards
  /\ rotationIntervalSeconds = 1

NextRot ==
  \/ StartRotation
  \/ StopRotation
  \/ NextDashboard
  \/ CountdownTick
  \/ SetDashboards
  \/ SetInterval
  \/ ActivityEvent
  \/ TimeoutFire
  \/ TimePasses

SpecRot == Init /\ [][NextRot]_vars

\* timers fire: the 1 s interval of the countdown while it is set, and the
\* deadline of the activity detector when it is due
FairRot ==
  /\ WF_vars(CountdownTick)
  /\ WF_vars(TimeoutFire)

SpecProgress == Init /\ [][NextRot]_vars /\ FairRot

\* the page: the rotation hook, the detector and the dashboard selector
NextPage ==
  \/ NextRot
  \/ SelectDashboard

SpecPage == Init /\ [][NextPage]_vars

\* the detector as its component reconfigures and unmounts it; events reach
\* the hook while its listeners are subscribed
NextAct ==
  \/ listening /\ ActivityEvent
  \/ TimeoutFire
  \/ TimePasses
  \/ SetTimeoutMs
  \/ DetectorTeardown

SpecAct == Init /\ [][NextAct]_vars

SpecPool == InitCaches /\ [][NextPool]_vars

SpecWarm == InitCaches /\ [][NextWarm]_vars

\* the pool with a fixed list and no caller: warm-up, the sweep and the clock
NextQuiet ==
  \/ PoolClock
  \/ SweepIdle
  \/ WarmUpPool
  \/ WarmLoaded
  \/ WarmFailed
  \/ WarmDelayDone

\* a timer that is set fires, the 30 s interval of the sweep keeps firing, and
\* an iframe warm-up waits for loads, fails or runs into its 20 s timeout
FairQuiet ==
  /\ WF_vars(WarmUpPool)
  /\ WF_vars(WarmDelayDone)
  /\ WF_vars(WarmLoaded \/ WarmFailed)
  /\ WF_vars(SweepIdle)

SpecQuiet == InitCaches /\ [][NextQuiet]_vars /\ FairQuiet

SpecPre == InitCaches /\ [][NextPre]_vars

SpecNext == InitCaches /\ [][NextNext]_vars

\* the preload-next effect for every list the rotation runs on
InitAhead ==
  /\ Init
  /\ dashboardsLen \in 2..MaxDashboards
  /\ rotationIntervalSeconds = 1

SpecAhead == InitAhead /\ [][NextNext]_vars

\* the two caches up to and after the unmount of their component: calls need
\* the component, timers need to be set, load and error events need an iframe
\* in the document. The caches share no state, so one behaviour exercises one
\* of them and the other is torn down as constructed.
PoolUntouched == poolOp.op \in {"init", "teardown"}
PreUntouched == preOp.op \in {"init", "teardown"}

NextTeardown ==
  \/ PreUntouched /\ poolScope.mounted /\ \E id \in DashboardIds : AcquireConnection(id)
  \/ PreUntouched /\ poolScope.container /\ \E q \in pending : AcquireLoaded(q)
  \/ PreUntouched /\ \E q \in pending : AcquireFailed(q)
  \/ PreUntouched /\ poolScope.interval /\ SweepIdle
  \/ PreUntouched /\ poolScope.mounted /\ WarmUpPool
  \/ PreUntouched /\ poolScope.container /\ WarmLoaded
  \/ PreUntouched /\ poolScope.mounted /\ WarmFailed
  \/ PreUntouched /\ poolScope.mounted /\ WarmDelayDone
  \/ PreUntouched /\ WarmAfterTeardown
  \/ PoolUntouched /\ preScope.mounted /\ \E id \in PreloadIds : PreloadDashboard(id)
  \/ PoolUntouched /\ preScope.container /\ \E id \in PreloadIds : PreloadLoaded(id)
  \/ PoolUntouched /\ preScope.container /\ \E id \in PreloadIds : PreloadFailed(id)
  \/ PoolUntouched /\ \E id \in PreloadIds : PreloadTimedOut(id)
  \/ PoolUntouched /\ preScope.interval /\ PreSweep
  \/ Teardown

SpecTeardown == InitCaches /\ [][NextTeardown]_vars

\* the frame loading one dashboard after another, and the preloader filling
\* its cache between the steps of the frame
NextFrame ==
  \/ \E id \in DashboardIds : FrameSwitch(id)
  \/ FrameRetry
  \/ FrameLoad
  \/ \E q \in pending : FrameAcquired(q)
  \/ \E q \in pending : FrameAcquireFailed(q)
  \/ FrameRelease
  \/ FrameAtRest /\ \E id \in DashboardIds : PreloadDashboard(id)
  \/ FrameAtRest /\ \E id \in DashboardIds : PreloadLoaded(id)

SpecFrame == InitCaches /\ [][NextFrame]_vars

\* the frame and the pool, with dashboard changes that do not wait for the
\* load in progress
NextLoan ==
  \/ \E id \in DashboardIds : FrameSwitch(id)
  \/ FrameRetry
  \/ FrameLoad
  \/ \E q \in pending : FrameAcquired(q)
  \/ \E q \in pending : FrameAcquireFailed(q)
  \/ FrameRelease
  \/ \E id \in DashboardIds : FrameSwitchEarly(id)
  \/ \E q \in pending : FrameAcquiredLate(q)
  \/ \E q \in pending : FrameAcquireFailedLate(q)

\* a loadDashboard call that can go on does, a release that is due runs, and
\* every iframe creation loads, fails or runs into its 20 s timeout; dashboard
\* changes and retries are the viewer's
FairLoan ==
  /\ WF_vars(FrameLoad)
  /\ WF_vars(FrameRelease)
  /\ WF_vars(\E q \in pending :
               \/ FrameAcquired(q) \/ FrameAcquireFailed(q)
               \/ FrameAcquiredLate(q) \/ FrameAcquireFailedLate(q))

SpecLoan == InitCaches /\ [][NextLoan]_vars /\ FairLoan

\* ----------------------------------------------------------------- claims
\* C1: while less than timeoutMs has passed since the last qualifying event
\* (or construction) isActive is true; once more than timeoutMs has passed it
\* is false, it became false exactly once in that gap, and it stays false
\* until the next qualifying event.
C1_ActiveUntilTimeout ==
  /\ sinceEvent < TimeoutMs => isActive
  /\ sinceEvent > TimeoutMs => (~isActive /\ offFlips = 1)
  /\ ~isActive => (sinceEvent >= TimeoutMs /\ timeoutRef = NoTimer)
  /\ offFlips <= 1

C1_Witness == sinceEvent > TimeoutMs /\ ~isActive /\ offFlips = 1

\* C2: in a run that starts Running and idle with timeRemaining = I and sees
\* only ticks, after k ticks currentIndex has advanced k div I times and
\* timeRemaining is I - (k mod I): no advance before tick I, exactly one at
\* tick I, with timeRemaining back at I.
C2_AdvanceEveryInterval ==
  run # NoRun =>
    /\ dashboardsLen > 1
    /\ currentDashboardIndex =
         (run.start + (run.ticks \div rotationIntervalSeconds)) % dashboardsLen
    /\ timeRemaining =
         rotationIntervalSeconds - (run.ticks % rotationIntervalSeconds)

C2_Witness ==
  /\ run # NoRun
  /\ rotationIntervalSeconds = 3
  /\ dashboardsLen = 3
  /\ run.ticks = 3
  /\ currentDashboardIndex = (run.start + 1) % 3
  /\ timeRemaining = 3

\* C3: while Running, activity resets timeRemaining to the full interval and
\* keeps isRotating; while active there is no tick and no automatic advance;
\* when idle resumes a countdown run starts from the full interval.
C3_PauseOnActivity ==
  [][ /\ (isRotating /\ isActive) =>
           (timeRemaining = rotationIntervalSeconds /\ ~countdownRef)
      /\ (rotOp'.op = "activity" /\ isRotating) =>
           /\ isRotating'
           /\ timeRemaining' = rotationIntervalSeconds'
           /\ currentDashboardIndex' = currentDashboardIndex
           /\ ~countdownRef'
      /\ rotOp'.op = "tick" => ~isActive'
      /\ (isActive /\ isActive' /\ currentDashboardIndex' # currentDashboardIndex)
           => rotOp'.op \in {"next", "dashboards"}
      /\ (rotOp'.op = "idle" /\ isRotating /\ dashboardsLen > 1) =>
           run' = [start |-> currentDashboardIndex, ticks |-> 0]
    ]_vars

C3_Witness ==
  /\ rotOp.op = "activity"
  /\ rotOp.tr = 1
  /\ rotationIntervalSeconds = 3
  /\ dashboardsLen = 3
  /\ isRotating
  /\ isActive
  /\ timeRemaining = 3

\* C4: currentIndex is a valid index whenever the list is non-empty, and a
\* list change that leaves it out of range resets it to 0 in the same step.
C4_IndexInBounds ==
  [][ /\ dashboardsLen > 0 => currentDashboardIndex \in 0..(dashboardsLen - 1)
      /\ dashboardsLen' > 0 => currentDashboardIndex' \in 0..(dashboardsLen' - 1)
      /\ (rotOp'.op = "dashboards" /\ dashboardsLen' > 0
            /\ currentDashboardIndex >= dashboardsLen')
           => currentDashboardIndex' = 0
    ]_vars

C4_Witness ==
  /\ rotOp.op = "dashboards"
  /\ rotOp.idx = 2
  /\ dashboardsLen = 2
  /\ currentDashboardIndex = 0
\* C5: the pool never holds more than maxConnections connections.
C5_PoolCapacity == PoolSize(connectionPool) <= MaxConnections

\* C6: the preload cache never holds more than maxPreloadedDashboards
\* entries, entries that share one lastUsed included.
C6_PreloaderCapacity == Len(preloadedDashboards) <= MaxPreloadedDashboards

\* C7: a sweep or an LRU replacement never evicts a connection that is on
\* loan (active) and never detaches its iframe.
C7_ActiveNeverDestroyed ==
  [][ poolOp'.op \in {"sweep", "acquire-replace"} =>
        \A h \in PooledHandles(connectionPool) :
          (conn[h].isActive /\ conn[h].parent # "none") =>
            /\ h \in PooledHandles(connectionPool')
            /\ conn'[h].parent # "none"
    ]_vars

\* C8: between an acquire(id) that returns a handle and the release(id) that
\* follows, no other acquire(id) returns a handle: at most one handle per id
\* is on loan.
C8_SingleOwner ==
  \A id \in DashboardIds : Cardinality({h \in held : conn[h].id = id}) <= 1

\* C9: acquire(id) then release(id) leaves a pooled, inactive, loaded entry
\* for id with lastUsed at the time of the release, and the acquire(id) that
\* follows returns the same handle and creates nothing.
C9_RoundTrip ==
  /\ rt.phase = 2 =>
       /\ connectionPool[rt.id] = rt.h
       /\ ~conn[rt.h].isActive
       /\ conn[rt.h].state = "loaded"
       /\ conn[rt.h].lastUsed = now
  /\ rt.phase = 3 => (rt.res = rt.h /\ ~rt.made)

C9_Witness == rt.phase = 3 /\ rt.h # 0 /\ rt.res = rt.h /\ now > 0

\* the pool holds maxConnections connections and every one is active
FullAllActive ==
  /\ PoolSize(connectionPool) = MaxConnections
  /\ \A h \in PooledHandles(connectionPool) : conn[h].isActive

\* C10: with the pool full and every connection active, acquire(id) for an id
\* not in the pool returns nothing, evicts nothing, creates no iframe and
\* leaves the pool as it was.
C10_FullAllActiveUnavailable ==
  [][ \A id \in DashboardIds :
        ( /\ FullAllActive
          /\ connectionPool[id] = 0
          /\ poolOp'.op \in {"acquire", "acquire-create", "acquire-replace"}
          /\ poolOp'.id = id
          /\ poolOp' # poolOp ) =>
        ( /\ poolOp' = [op |-> "acquire", id |-> id, res |-> 0]
          /\ UNCHANGED <<connectionPool, conn, created, pending, held>> )
    ]_vars

C10_Witness ==
  /\ FullAllActive
  /\ poolOp.op = "acquire"
  /\ poolOp.res = 0
  /\ poolOp.id \in DashboardIds
  /\ connectionPool[poolOp.id] = 0
\* the inactive connections of a Map
InactiveConnections(pool, c) == {h \in PooledHandles(pool) : ~c[h].isActive}

\* C11: when acquire(id) finds no entry for id and the pool is full, an
\* inactive connection with the smallest lastUsed among the inactive ones is
\* evicted whenever an inactive connection exists, and the connection created
\* for id is inserted marked active.
C11_LruReplacement ==
  [][ /\ \A id \in DashboardIds :
           ( /\ connectionPool[id] = 0
             /\ PoolSize(connectionPool) = MaxConnections
             /\ InactiveConnections(connectionPool, conn) # {}
             /\ poolOp'.op \in {"acquire", "acquire-create", "acquire-replace"}
             /\ poolOp'.id = id
             /\ poolOp' # poolOp ) =>
           ( /\ poolOp'.op = "acquire-replace"
             /\ \E v \in InactiveConnections(connectionPool, conn) :
                  /\ \A g \in InactiveConnections(connectionPool, conn) :
                       conn[v].lastUsed <= conn[g].lastUsed
                  /\ connectionPool' = [connectionPool EXCEPT ![conn[v].id] = 0] )
      /\ (poolOp'.op = "acquired" /\ poolOp' # poolOp) =>
           ( /\ connectionPool'[poolOp'.id] = poolOp'.res
             /\ conn'[poolOp'.res].isActive )
    ]_vars
\* C12: when the preload of an id the cache does not hold completes while
\* the cache holds maxPreloadedDashboards entries, exactly one entry is
\* evicted, one with the smallest lastUsed, and every other entry is kept.
C12_EvictsOldest ==
  [][ \A id \in PreloadIds :
        ( /\ ~HasPreloaded(preloadedDashboards, id)
          /\ HasPreloaded(preloadedDashboards', id)
          /\ Len(preloadedDashboards) = MaxPreloadedDashboards ) =>
        \E i \in 1..Len(preloadedDashboards) :
          /\ \A j \in 1..Len(preloadedDashboards) :
               preloadedDashboards[i].lastUsed <= preloadedDashboards[j].lastUsed
          /\ PreloadedIds(preloadedDashboards') =
               (PreloadedIds(preloadedDashboards) \ {preloadedDashboards[i].id})
                 \cup {id}
    ]_vars
\* C13: a preload that ends in a load error or in its timeout leaves the
\* cache as it was (no entry is recorded), and an event that arrives later on
\* the iframe of a timed-out preload changes neither the cache nor the
\* preloads in progress.
C13_FailedPreloadDiscarded ==
  [][ /\ ( /\ preOp'.op \in {"preload-failed", "preload-timeout"}
           /\ prePending' # prePending ) =>
         preloadedDashboards' = preloadedDashboards
      /\ \A id \in PreloadIds :
           preTimedOut'[id] < preTimedOut[id] =>
             /\ preloadedDashboards' = preloadedDashboards
             /\ prePending' = prePending
             /\ isPreloading' = isPreloading
    ]_vars

C13_Witness ==
  /\ preOp.op = "late-event"
  /\ preTimedOut[preOp.id] = 0
  /\ preLeak
  /\ ~HasPreloaded(preloadedDashboards, preOp.id)
\* C14: once the hard timeout of an iframe creation fires, in the preloader
\* and in the pool, the iframe is no longer a child of the hidden container
\* and its load/error listeners are unsubscribed.
C14_TimeoutDiscardsHandle ==
  [][ /\ \A id \in PreloadIds : preTimedOut'[id] <= preTimedOut[id]
      /\ ( /\ preOp'.op \in {"preload-timeout", "next-timeout"}
           /\ now' = now
           /\ ~preLeak ) => ~preLeak'
      /\ ( /\ poolOp'.op \in {"acquire-timeout", "warm-timeout"}
           /\ now' = now
           /\ ~poolLeak ) => ~poolLeak'
    ]_vars
\* the routines whose iframe creation is in flight
RoutinesLoading == {s \in Routines : preNext[s].wait = "load"}

\* C15: the predictive preloads are attempted strictly in sequence: at no
\* time are two preload iframe creations in flight.
C15_OnePreloadInFlight == Cardinality(RoutinesLoading) <= 1

\* C16: after the current index or the list has changed, no preload is
\* started for a target computed from the old index or list.
C16_NoStalePreloadStarted ==
  [][ \A s \in Routines :
        (preNext[s].wait = "delay" /\ preNext'[s].wait = "load") =>
          /\ preNext[s].idx = currentDashboardIndex
          /\ preNext[s].n = dashboardsLen
    ]_vars
\* the iframes warm-up has created and still waits for
WarmingIframes ==
  {h \in Handles : conn[h].state = "loading" /\ h \notin {q.h : q \in pending}}

\* C17: a warmUpPool call made while a warm-up is in progress changes
\* nothing, and at most one warm-up iframe creation is in progress.
C17_WarmUpNotReentrant ==
  [][ /\ (poolOp'.op = "warm" /\ now' = now /\ isWarmingUp) =>
           UNCHANGED <<connectionPool, conn, created, poolLeak, pending,
                       isWarmingUp, warm, held>>
      /\ Cardinality(WarmingIframes') <= 1
      /\ warm'.on = isWarmingUp'
    ]_vars

C17_Witness ==
  /\ poolOp.op = "warm"
  /\ ~warmTimer
  /\ isWarmingUp
  /\ warm.on
  /\ warm.h \in WarmingIframes
\* C18: releaseConnection(id) marks the connection of id inactive and
\* refreshes its lastUsed; the entry stays pooled with the same iframe, the
\* iframe stays attached to its parent, every other entry is unchanged, and
\* for an id that is not pooled nothing changes.
C18_ReleaseKeepsHandle ==
  [][ \A id \in DashboardIds :
        (poolOp'.op = "release" /\ poolOp'.id = id /\ now' = now) =>
          /\ connectionPool' = connectionPool
          /\ connectionPool[id] # 0 =>
               /\ ~conn'[connectionPool[id]].isActive
               /\ conn'[connectionPool[id]].lastUsed = now
               /\ conn'[connectionPool[id]].state = conn[connectionPool[id]].state
               /\ conn'[connectionPool[id]].parent = conn[connectionPool[id]].parent
          /\ \A g \in PooledHandles(connectionPool) \ {connectionPool[id]} :
               conn'[g] = conn[g]
    ]_vars
C20_StaleSweep ==
  [][ (preOp'.op = "sweep" /\ now' = now) =>
        /\ PreloadedIds(preloadedDashboards') =
             {preloadedDashboards[i].id :
                i \in {j \in 1..Len(preloadedDashboards) :
                         now - preloadedDashboards[j].lastUsed <= StaleMs}}
        /\ \A i \in 1..Len(preloadedDashboards') :
             \E j \in 1..Len(preloadedDashboards) :
               /\ preloadedDashboards[j].id = preloadedDashboards'[i].id
               /\ preloadedDashboards[j].lastUsed = preloadedDashboards'[i].lastUsed
    ]_vars

C20_Witness ==
  /\ preOp.op = "sweep"
  /\ preOp.id > 0
  /\ Len(preloadedDashboards) > 0
  /\ Len(preloadedDashboards) + preOp.id < MaxPreloadedDashboards

\* C21: whenever the dashboard list is empty, from whatever index it became
\* empty, no countdown is running and currentDashboardIndex is 0.
C21_EmptyListIndexZero ==
  dashboardsLen = 0 => (currentDashboardIndex = 0 /\ ~countdownRef)

\* C22: a step that lowers timeRemaining other than by resetting it to the
\* full interval is a countdown tick taken while Running and idle, and it
\* lowers it by one; in every state that is not Running and idle a step holds
\* timeRemaining constant or resets it to the full interval.
C22_DecreaseOnlyRunningIdle ==
  [][ /\ (timeRemaining' < timeRemaining /\
          timeRemaining' # rotationIntervalSeconds') =>
           /\ isRotating /\ ~isActive
           /\ rotOp'.op = "tick"
           /\ timeRemaining' = timeRemaining - 1
      /\ ~(isRotating /\ ~isActive) =>
           \/ timeRemaining' = timeRemaining
           \/ timeRemaining' = rotationIntervalSeconds'
    ]_vars

C22_Witness ==
  /\ rotOp.op = "tick"
  /\ timeRemaining = rotOp.tr - 1
  /\ isRotating /\ ~isActive

\* C23: in every reachable state, Running or Stopped, timeRemaining is an
\* integer between 0 and the currently configured interval.
C23_TimeRemainingRange ==
  /\ timeRemaining \in Int
  /\ 0 <= timeRemaining
  /\ timeRemaining <= rotationIntervalSeconds

\* C24: stopRotation leaves the scheduler Stopped with no interval pending;
\* while Stopped, whether the viewer is idle or active, no interval is
\* pending, timeRemaining and currentDashboardIndex change only by a manual
\* operation (start, next, a change of the list), never by a tick, and only
\* startRotation makes the scheduler Running again.
C24_StopCancelsTicks ==
  [][ /\ rotOp'.op = "stop" => (~isRotating' /\ ~countdownRef')
      /\ ~isRotating =>
           /\ ~countdownRef
           /\ (timeRemaining' # timeRemaining \/
               currentDashboardIndex' # currentDashboardIndex) =>
                 rotOp'.op \in {"start", "next", "dashboards"}
           /\ isRotating' => rotOp'.op = "start"
    ]_vars

C24_Witness ==
  /\ rotOp.op = "stop"
  /\ ~isRotating /\ ~isActive /\ dashboardsLen > 1
  /\ timeRemaining < rotationIntervalSeconds
  /\ ~countdownRef

\* C25: a change of the configured interval while Running sets timeRemaining
\* to the new interval in the same step, keeps the index, and (when idle with
\* more than one dashboard) starts a countdown run from zero ticks; in a run,
\* a tick advances the index exactly when the number of ticks reaches a
\* multiple of the interval now configured, and it then sets timeRemaining to
\* that interval.
C25_IntervalChangeRestarts ==
  [][ /\ (rotOp'.op = "interval" /\ isRotating /\
          rotationIntervalSeconds' # rotationIntervalSeconds) =>
            /\ isRotating'
            /\ timeRemaining' = rotationIntervalSeconds'
            /\ currentDashboardIndex' = currentDashboardIndex
            /\ countdownRef' =>
                 run' = [start |-> currentDashboardIndex, ticks |-> 0]
      /\ (run # NoRun /\ rotOp'.op = "tick" /\ run' # run) =>
            /\ rotationIntervalSeconds' = rotationIntervalSeconds
            /\ IF (run.ticks + 1) % rotationIntervalSeconds = 0
               THEN /\ currentDashboardIndex' =
                         NextIndex(currentDashboardIndex, dashboardsLen)
                    /\ timeRemaining' = rotationIntervalSeconds
               ELSE /\ currentDashboardIndex' = currentDashboardIndex
                    /\ timeRemaining' = timeRemaining - 1
    ]_vars

C25_Witness ==
  /\ rotOp.op = "interval"
  /\ isRotating /\ countdownRef
  /\ rotOp.tr < rotationIntervalSeconds
  /\ timeRemaining = rotationIntervalSeconds
  /\ run = [start |-> currentDashboardIndex, ticks |-> 0]

\* C26: a nextDashboard() call, in any state, leaves isRotating, the list and
\* the interval alone; on a non-empty list it sets currentDashboardIndex to
\* (currentDashboardIndex + 1) mod N and timeRemaining to the full interval,
\* on an empty list it changes nothing.
C26_NextDashboardAnyTime ==
  [][ (rotOp'.op = "next" /\ UNCHANGED actVars) =>
        /\ isRotating' = isRotating
        /\ dashboardsLen' = dashboardsLen
        /\ rotationIntervalSeconds' = rotationIntervalSeconds
        /\ IF dashboardsLen > 0
           THEN /\ currentDashboardIndex' =
                     (currentDashboardIndex + 1) % dashboardsLen
                /\ timeRemaining' = rotationIntervalSeconds
           ELSE /\ currentDashboardIndex' = currentDashboardIndex
                /\ timeRemaining' = timeRemaining
                /\ countdownRef' = countdownRef
    ]_vars

\* the call made while Stopped and active, wrapping around
C26_Witness ==
  /\ rotOp.op = "next"
  /\ ~isRotating /\ isActive
  /\ dashboardsLen = MaxDashboards
  /\ rotOp.idx = MaxDashboards - 1 /\ currentDashboardIndex = 0
  /\ rotOp.tr > rotationIntervalSeconds
  /\ timeRemaining = rotationIntervalSeconds

\* C27: a preload for an id that has a cache entry creates no iframe: a
\* routine starts an iframe creation for its target only when the cache holds
\* no entry for that id.
C27_NoIframeForCachedId ==
  [][ \A s \in Routines :
        (preNext[s].wait # "load" /\ preNext'[s].wait = "load") =>
          ~HasPreloaded(preloadedDashboards,
                        PreloadTarget(preNext'[s], preNext'[s].k))
    ]_vars

\* C28: once the component is unmounted, both hidden containers are out of
\* the document and every timer of the two hooks is cleared; every iframe of
\* a pooled connection, active or not, and of a preload entry has left its
\* parent, and no iframe of either cache is in the document, those of
\* creations in flight at the unmount included; after the unmount no sweep
\* runs and no entry is added to either cache.
C28_TeardownDestroysAll ==
  [][ /\ ~poolScope'.mounted =>
           /\ ~preScope'.mounted
           /\ ~poolScope'.container /\ ~preScope'.container
           /\ ~poolScope'.interval /\ ~preScope'.interval
           /\ ~warmTimer' /\ ~preNextTimer'
           /\ \A h \in PooledHandles(connectionPool') : conn'[h].parent = "none"
           /\ \A i \in 1..Len(preloadedDashboards') :
                ~preloadedDashboards'[i].attached
           /\ PoolInDocument' = {}
           /\ ~(poolLeak' /\ poolScope'.container)
           /\ ~(preLeak' /\ preScope'.container)
           /\ \A id \in PreloadIds :
                (prePending'[id] > 0 \/ preTimedOut'[id] > 0) => ~preScope'.container
           /\ poolOp'.op # "sweep" /\ preOp'.op # "sweep"
      /\ ~poolScope.mounted =>
           /\ connectionPool' = connectionPool
           /\ PreloadedIds(preloadedDashboards') = PreloadedIds(preloadedDashboards)
    ]_vars

\* unmounted with an active and an inactive connection pooled, and the
\* creation in flight at the unmount since timed out
C28_Witness ==
  /\ ~poolScope.mounted /\ ~preScope.mounted
  /\ \E h \in PooledHandles(connectionPool) : conn[h].isActive
  /\ \E h \in PooledHandles(connectionPool) : ~conn[h].isActive
  /\ poolOp.op = "acquire-timeout"
  /\ pending = {} /\ ~warm.on

\* C29: while the listeners are subscribed the one pending deadline is the
\* one armed with the current timeoutMs at the last event or reconfiguration,
\* and isActive is false only once that much time has passed; a change of
\* timeoutMs arms the deadline with the new value in the same step; after
\* the teardown no deadline is pending, no listener is subscribed again and
\* isActive never changes.
C29_ReconfigureAndTeardown ==
  [][ /\ listening' =>
           /\ timeoutRef' # NoTimer => timeoutRef' + sinceEvent' = timeoutMs'
           /\ ~isActive' => (sinceEvent' >= timeoutMs' /\ timeoutRef' = NoTimer)
      /\ (listening /\ timeoutMs' # timeoutMs) =>
           (listening' /\ isActive' /\ timeoutRef' = timeoutMs')
      /\ ~listening' => timeoutRef' = NoTimer
      /\ ~listening => (~listening' /\ isActive' = isActive)
    ]_vars

\* reconfigured to the shorter value while a deadline of the longer one was
\* pending, and idle by the new deadline
C29_Witness ==
  /\ listening
  /\ timeoutMs = ShortTimeoutMs
  /\ rotOp.op = "idle"
  /\ ~isActive /\ sinceEvent = ShortTimeoutMs /\ offFlips = 1

\* C30: a loadDashboard call that finds a preloaded iframe uses it and calls
\* no pool operation; one that finds none calls acquireConnection, displays
\* the iframe it returns, at once or once created, and creates a fresh iframe
\* only when acquireConnection returns nothing.
C30_LoadStrategyOrder ==
  [][ /\ frame.stage = "load" =>
           LET id == frame.id
               hit == HasPreloaded(preloadedDashboards, id)
               branch == AcquireBranch(connectionPool, conn, id, now)
           IN
           /\ hit =>
                /\ frame'.method = "preloaded" /\ frame'.stage # "acquiring"
                /\ ~HasPreloaded(preloadedDashboards', id)
                /\ UNCHANGED poolVars
           /\ ~hit =>
                /\ poolOp'.id = id
                /\ poolOp'.op \in {"acquire", "acquire-create", "acquire-replace"}
                /\ UNCHANGED preVars
           /\ (~hit /\ branch = "reuse") =>
                /\ frame'.method = "pooled"
                /\ poolOp'.res = connectionPool[id] /\ poolOp'.res \in held'
                /\ created' = created
           /\ (~hit /\ branch \in {"create", "replace"}) =>
                /\ frame'.stage = "acquiring" /\ frame'.method = frame.method
           /\ (~hit /\ branch = "unavailable") =>
                /\ frame'.method = "fresh"
                /\ poolOp'.res = 0 /\ held' = held
      /\ (frame.stage = "acquiring" /\ frame'.stage # "acquiring") =>
           \/ /\ frame'.method = "pooled"
              /\ poolOp'.op = "acquired" /\ poolOp'.id = frame.id
              /\ poolOp'.res \in held'
           \/ /\ frame'.method = "fresh"
              /\ poolOp'.op \in {"acquire-failed", "acquire-timeout"}
              /\ held' = held
    ]_vars

\* the preloaded iframe was used although the pool holds a loaded, inactive
\* connection for the same dashboard
C30_Witness ==
  /\ frame.method = "preloaded" /\ frame.stage = "idle"
  /\ preOp = [op |-> "remove", id |-> frame.id]
  /\ connectionPool[frame.id] # 0
  /\ conn[connectionPool[frame.id]].state = "loaded"
  /\ ~conn[connectionPool[frame.id]].isActive

\* C31: currentIndex identifies the displayed dashboard: whenever the list is
\* non-empty, the dashboard the page shows (the one whose id is
\* selectedDashboard) is dashboards[currentDashboardIndex], also after a manual
\* pick in the selector and after later advances.
C31_DisplayedIsCurrent ==
  dashboardsLen > 0 => selectedDashboard = currentDashboardIndex + 1

\* C32: handle liveness: the iframe of every entry of the pool and of the
\* preload cache is attached to a parent, and no step (insert, mark active,
\* release, evict) detaches the iframe of an entry that stays in its cache.
C32_HandleLiveness ==
  /\ [](/\ \A h \in PooledHandles(connectionPool) : conn[h].parent # "none"
        /\ \A i \in 1..Len(preloadedDashboards) : preloadedDashboards[i].attached)
  /\ [][ /\ \A h \in PooledHandles(connectionPool) \cap PooledHandles(connectionPool') :
              conn[h].parent # "none" => conn'[h].parent # "none"
         /\ \A i \in 1..Len(preloadedDashboards) :
              \A j \in 1..Len(preloadedDashboards') :
                (preloadedDashboards'[j].id = preloadedDashboards[i].id
                   /\ preloadedDashboards[i].attached)
                  => preloadedDashboards'[j].attached
       ]_vars

\* C33: no leaked handles: every iframe that is a child of a hidden container
\* belongs to an entry of that cache or to a creation in flight; after a
\* failed creation, an overwrite and an eviction no unowned iframe is left in
\* the container.
C33_NoLeakedHandles ==
  /\ ~poolLeak
  /\ ~preLeak

\* C34: warm-up quiescence: with a fixed non-empty list and no acquire or
\* release call, the pool eventually reaches a state from which no warm-up is
\* scheduled or running any more. Behaviours that use up the iframes of the
\* model are left out, so that a warm-up that cannot go on for want of an
\* iframe does not count against the property.
C34_WarmUpQuiescence ==
  \/ <>[](~warmTimer /\ ~isWarmingUp)
  \/ <>(created = MaxHandles)

\* C35: no connection stays on loan for ever: a connection acquireConnection
\* handed to the frame is released eventually once the frame displays another
\* dashboard, also when the acquisition completed after the change.
C35_LoanReleased ==
  \A h \in Handles :
    (h \in held /\ conn[h].id # frame.id) ~> (h \notin held)

\* C36: a failed acquire leaves the pool as it was: when acquireConnection(id)
\* returns nothing, at once or after the creation it waited for failed or
\* timed out, no step of the call has changed the set of pooled entries or
\* their active flags.
C36_FailedAcquireKeepsPool ==
  [][ /\ (poolOp'.op = "acquire" /\ poolOp'.res = 0) =>
           PoolView(connectionPool', conn') = PoolView(connectionPool, conn)
      /\ \A q \in pending \ pending' :
           poolOp'.op \in {"acquire-failed", "acquire-timeout"} =>
             /\ PoolView(connectionPool', conn') = PoolView(connectionPool, conn)
             /\ q.lru = 0
    ]_vars

\* C37: the preloader only loads dashboards ahead of when they become current:
\* for every list of more than one dashboard, no preload iframe is created by
\* preloadNext for the dashboard at currentDashboardIndex.
C37_NeverPreloadsCurrent ==
  [][ \A s \in Routines :
        (preNext'[s].wait = "load" /\ preNext'[s] # preNext[s]) =>
          PreloadTarget(preNext'[s], preNext'[s].k) # currentDashboardIndex' + 1
    ]_vars

\* C38: rotation progress: an expired countdown advances the index by exactly
\* one position, and if from some point on the scheduler is Running with a
\* fixed list of more than one dashboard and the viewer stays idle (the
\* countdown's callback is the only handler that runs), every dashboard of the
\* list becomes current infinitely often.
C38_RotationProgress ==
  /\ [][ (rotOp'.op = "tick" /\ UNCHANGED actVars) =>
           /\ dashboardsLen' = dashboardsLen
           /\ IF timeRemaining <= 1
              THEN currentDashboardIndex' =
                     (currentDashboardIndex + 1) % dashboardsLen
              ELSE currentDashboardIndex' = currentDashboardIndex
       ]_vars
  /\ \A n \in 2..MaxDashboards :
       <>[](isRotating /\ ~isActive /\ dashboardsLen = n /\ rotOp.op = "tick")
         => \A d \in 0..(n - 1) : []<>(currentDashboardIndex = d)

C38_Witness ==
  /\ isRotating
  /\ ~isActive
  /\ dashboardsLen = MaxDashboards
  /\ rotOp.op = "tick"
  /\ rotOp.idx = MaxDashboards - 1
  /\ currentDashboardIndex = 0
  /\ run # NoRun
  /\ run.ticks >= MaxDashboards

====
